---- MODULE Spec2Model ----
(***************************************************************************)
(* The HHL linear-system solver of qiskit_aqua                             *)
(* (src/qiskit_aqua/algorithms/single_sample/hhl/hhl.py).                  *)
(*                                                                         *)
(* Two specifications:                                                     *)
(*   SpecParams  HHL.init_params: input normalisation, dimension check,    *)
(*               sub-algorithm resolution, construction;                   *)
(*   Spec        HHL.init_params on a well-formed system, then one         *)
(*               HHL._run of the instance, step by step.                   *)
(*                                                                         *)
(* Complex numbers are pairs <<re, im>> of integers.  A matrix is a        *)
(* sequence of rows, a vector a sequence of complex numbers.               *)
(***************************************************************************)
EXTENDS Integers, Sequences, FiniteSets, TLC

VARIABLES
    params,      \* init_params: the parameters dictionary
    algo_input,  \* init_params: the LinearSystemInput, or NoInput
    made,        \* init_params: what the call ended in
    self,        \* the HHL instance (its fields)
    backend,     \* the quantum instance: kind of backend, executions so far
    locals,      \* _run's callees: the execution result and the extracted vec
    pc,          \* position of the caller in __init__ / _run
    log          \* the steps _run has taken, in order

vars == <<params, algo_input, made, self, backend, locals, pc, log>>

(***************************************************************************)
(* Bounds of the model.                                                    *)
(***************************************************************************)
\* largest number of rows / columns of a raw input matrix
MaxSide == 3
\* largest length of a raw input vector
MaxVecLen == 5
\* number of entry patterns tried for each shape
NumPatterns == 2
\* largest eigenvalue (ancilla) register
MaxAncillae == 1

(***************************************************************************)
(* Complex arithmetic on Gaussian integers.                                *)
(***************************************************************************)
Zero == <<0, 0>>
One == <<1, 0>>
ImagUnit == <<0, 1>>

CAdd(x, y) == <<x[1] + y[1], x[2] + y[2]>>
CMul(x, y) == <<x[1] * y[1] - x[2] * y[2], x[1] * y[2] + x[2] * y[1]>>
CConj(x) == <<x[1], -x[2]>>
CNeg(x) == <<-x[1], -x[2]>>
\* |x|^2
CAbs2(x) == x[1] * x[1] + x[2] * x[2]
\* what numpy stores when a complex value is assigned into a float array
CastToFloat(x) == <<x[1], 0>>

\* the sum of the first n entries of a sequence of complex numbers
RECURSIVE CSumTo(_, _)
CSumTo(s, n) == IF n = 0 THEN Zero ELSE CAdd(CSumTo(s, n - 1), s[n])
CSum(s) == CSumTo(s, Len(s))

\* the sum of the first n entries of a sequence of integers
RECURSIVE IntSumTo(_, _)
IntSumTo(s, n) == IF n = 0 THEN 0 ELSE IntSumTo(s, n - 1) + s[n]
IntSum(s) == IntSumTo(s, Len(s))

IsPow2(n) == \E k \in 0..n : 2^k = n

RECURSIVE CeilLog2(_)
CeilLog2(n) == IF n <= 1 THEN 0 ELSE 1 + CeilLog2((n + 1) \div 2)

(***************************************************************************)
(* Arrays: a matrix is a sequence of rows of equal length.                 *)
(***************************************************************************)
Rows(matrix) == Len(matrix)
Cols(matrix) == Len(matrix[1])
IsSquare(matrix) == Rows(matrix) = Cols(matrix)

\* numpy.identity(m), as complex
Identity(m) == [i \in 1..m |-> [j \in 1..m |-> IF i = j THEN One ELSE Zero]]

(***************************************************************************)
(* The inputs tried.  Entries come from a pool that has real, imaginary    *)
(* and mixed values, none of them the filler value 1.                      *)
(***************************************************************************)
EntryPool == << <<2, 0>>, <<0, 3>>, <<1, 1>>, <<3, -1>>, <<0, 0>>, <<-1, 2>> >>
PoolAt(k) == EntryPool[(k % Len(EntryPool)) + 1]

MatrixOf(r, c, p) ==
    [i \in 1..r |-> [j \in 1..c |-> PoolAt((i - 1) * c + (j - 1) + p)]]

\* pattern 0 is a real vector, the others have complex entries
VectorOf(n, p) ==
    [i \in 1..n |-> IF p = 0 THEN <<i + 1, 0>> ELSE PoolAt(i + p)]

Patterns == 0..(NumPatterns - 1)

NoInput == [present |-> FALSE, matrix |-> <<>>, vector |-> <<>>]

AlgoInputs ==
    {NoInput} \cup
    { [present |-> TRUE, matrix |-> MatrixOf(r, c, p), vector |-> VectorOf(n, q)] :
        r \in 1..MaxSide, c \in 1..MaxSide, p \in Patterns,
        n \in 1..MaxVecLen, q \in Patterns }

\* a key that is not in a dictionary: dict.get gives None
NoneValue == "<None>"
ModeValues == {NoneValue, "circuit", "evaluate", "bogus"}

NoSection == [name |-> NoneValue, num_ancillae |-> 0, negative_evals |-> FALSE]
EigsSections ==
    { NoSection,
      [name |-> "QPE", num_ancillae |-> 1, negative_evals |-> FALSE],
      [name |-> "QPE", num_ancillae |-> MaxAncillae, negative_evals |-> TRUE],
      [name |-> "bogus", num_ancillae |-> 1, negative_evals |-> FALSE] }
ReciprocalSections == {NoneValue, "Lookup", "LongDivision", "bogus"}

ParamsSets ==
    [mode : ModeValues, eigs : EigsSections, reciprocal : ReciprocalSections]

(***************************************************************************)
(* The pluggable registry and the schema validation of the base class.     *)
(***************************************************************************)
\* get_pluggable_class: the names each role resolves
Registry(role) ==
    CASE role = "eigs" -> {"QPE"}
      [] role = "initial_state" -> {"CUSTOM"}
      [] role = "reciprocal" -> {"Lookup", "LongDivision"}

\* Pluggable.validate against CONFIGURATION['input_schema']: mode is a string
\* of the enum
validate(mode) == mode \in {"circuit", "evaluate"}

\* QPE.get_register_sizes: the operator's qubits and the ancillae asked for
get_register_sizes(matrix, eigs_params) ==
    <<CeilLog2(Rows(matrix)), eigs_params.num_ancillae>>

(***************************************************************************)
(* HHL.__init__                                                            *)
(***************************************************************************)
NoRegister == [name |-> NoneValue, size |-> 0, kind |-> "none"]
NoCircuit == [regs |-> <<>>, ops |-> <<>>]
EmptyDict == <<>>

\* the instance before any construction
NoInstance ==
    [error |-> "not constructed",
     matrix |-> <<>>, vector |-> <<>>, eigs |-> NoSection,
     init_state |-> NoneValue, reciprocal |-> NoneValue, mode |-> NoneValue,
     num_q |-> 0, num_a |-> 0,
     circuit |-> NoCircuit, io_register |-> NoRegister,
     eigenvalue_register |-> NoRegister, ancilla_register |-> NoRegister,
     success_bit |-> NoRegister, ret |-> EmptyDict]

\* the constructor without the schema validation
HHL_init_unvalidated(matrix, vector, eigs, init_state, reciprocal, mode, num_q, num_a) ==
    [NoInstance EXCEPT
        !.error = "",
        !.matrix = matrix, !.vector = vector, !.eigs = eigs,
        !.init_state = init_state, !.reciprocal = reciprocal, !.mode = mode,
        !.num_q = num_q, !.num_a = num_a]

\* the constructor: validate(locals()) raises AquaError before any field is set
HHL_init(matrix, vector, eigs, init_state, reciprocal, mode, num_q, num_a) ==
    IF ~validate(mode)
    THEN [NoInstance EXCEPT !.error = "AquaError"]
    ELSE [NoInstance EXCEPT
            !.error = "",
            !.matrix = matrix, !.vector = vector, !.eigs = eigs,
            !.init_state = init_state, !.reciprocal = reciprocal, !.mode = mode,
            !.num_q = num_q, !.num_a = num_a]

(***************************************************************************)
(* HHL.init_params                                                         *)
(***************************************************************************)
\* np.log2(matrix.shape[0]) % 1 != 0
NeedsPadding(matrix) == ~IsPow2(Rows(matrix))

\* the side the system is embedded into: 2 ** ceil(log2(shape[0]))
NextHigher(matrix) == 2 ^ CeilLog2(Rows(matrix))

\* new_matrix[:n, :n] = matrix[:, :] needs the (n, c) source to broadcast to
\* (n, n): c = n, or c = 1 (the column is repeated)
MatrixAssignable(matrix) == Cols(matrix) \in {1, Rows(matrix)}

\* new_vector[0, :len(vector)] = vector: the slice holds min(len, m) places
VectorAssignable(vector, m) == Len(vector) <= m

\* the identity of side NextHigher with the matrix in its top-left block
PadMatrix(matrix) ==
    LET n == Rows(matrix)
        m == NextHigher(matrix)
    IN  [i \in 1..m |-> [j \in 1..m |->
            IF i <= n /\ j <= n
            THEN (IF Cols(matrix) = 1 THEN matrix[i][1] ELSE matrix[i][j])
            ELSE Identity(m)[i][j]]]

\* np.ones((1, m)), a float array, with the vector assigned into its head
PadVector(vector, m) ==
    [i \in 1..m |-> IF i <= Len(vector) THEN CastToFloat(vector[i]) ELSE One]

\* matrix.shape[0] != len(vector) raises
DimensionsMatch(matrix, vector) == Rows(matrix) = Len(vector)

\* how a call of init_params ends
Ended(outcome, steps, matrix, vector, resolved, instance) ==
    [outcome |-> outcome, steps |-> steps, matrix |-> matrix, vector |-> vector,
     resolved |-> resolved, instance |-> instance]

NotCalled == Ended("not called", <<>>, <<>>, <<>>, <<>>, NoInstance)

\* lines 126-150: the sections are read and the three sub-algorithms resolved in
\* the order eigs, initial state, reciprocal; then the instance is constructed
Resolve(prm, matrix, vector, steps) ==
    LET s1 == steps \o <<"read_algorithm_section", "read_eigs_section">>
    IN
    IF prm.eigs.name = NoneValue
    THEN Ended("KeyError", s1, matrix, vector, <<>>, NoInstance)
    ELSE IF prm.eigs.name \notin Registry("eigs")
    THEN Ended("AquaError", s1, matrix, vector, <<>>, NoInstance)
    ELSE
    LET sizes == get_register_sizes(matrix, prm.eigs)
        r2 == <<"eigs", "initial_state">>
        s2 == s1 \o <<"read_reciprocal_section">>
    IN
    IF prm.reciprocal = NoneValue
    THEN Ended("KeyError", s2, matrix, vector, r2, NoInstance)
    ELSE IF prm.reciprocal \notin Registry("reciprocal")
    THEN Ended("AquaError", s2, matrix, vector, r2, NoInstance)
    ELSE
    LET inst == HHL_init(matrix, vector, prm.eigs, "CUSTOM", prm.reciprocal,
                         prm.mode, sizes[1], sizes[2])
        r3 == r2 \o <<"reciprocal">>
    IN  Ended(IF inst.error = "" THEN "ok" ELSE inst.error,
              s2 \o <<"construct">>, matrix, vector, r3, inst)

\* lines 105-124: the arrays are read, embedded when the matrix's side is no
\* power of two, and their dimensions compared
Normalize(prm, input) ==
    LET matrix == input.matrix
        vector == input.vector
        s0 == <<"read_matrix", "read_vector">>
    IN
    IF NeedsPadding(matrix)
    THEN IF ~MatrixAssignable(matrix)
         THEN Ended("ValueError: broadcast", s0 \o <<"pad_matrix">>,
                    matrix, vector, <<>>, NoInstance)
         ELSE IF ~VectorAssignable(vector, NextHigher(matrix))
         THEN Ended("ValueError: broadcast", s0 \o <<"pad_matrix", "pad_vector">>,
                    PadMatrix(matrix), vector, <<>>, NoInstance)
         ELSE LET new_matrix == PadMatrix(matrix)
                  new_vector == PadVector(vector, NextHigher(matrix))
                  s1 == s0 \o <<"pad_matrix", "pad_vector", "check_dimensions">>
              IN  IF ~DimensionsMatch(new_matrix, new_vector)
                  THEN Ended("ValueError: dimension", s1, new_matrix, new_vector,
                             <<>>, NoInstance)
                  ELSE Resolve(prm, new_matrix, new_vector, s1)
    ELSE LET s1 == s0 \o <<"check_dimensions">>
         IN  IF ~DimensionsMatch(matrix, vector)
             THEN Ended("ValueError: dimension", s1, matrix, vector, <<>>, NoInstance)
             ELSE Resolve(prm, matrix, vector, s1)

\* a variant that looks at algo_input only after reading the arrays' section
init_params_late_check(prm, input) ==
    IF ~input.present
    THEN Ended("AquaError", <<"read_algorithm_section">>, <<>>, <<>>, <<>>, NoInstance)
    ELSE Normalize(prm, input)

\* lines 103-104 first: a missing algo_input raises before anything is read
init_params(prm, input) ==
    IF ~input.present
    THEN Ended("AquaError", <<>>, <<>>, <<>>, <<>>, NoInstance)
    ELSE Normalize(prm, input)

(***************************************************************************)
(* SpecParams: one call of HHL.init_params on each of the inputs.          *)
(***************************************************************************)
NoBackend == [statevector |-> FALSE, executions |-> 0]
NoVec == [num |-> <<>>, den2 |-> 0]
NoLocals == [sv |-> <<>>, counts |-> <<>>, fit |-> NoVec, vec |-> NoVec]

InitParams ==
    /\ params \in ParamsSets
    /\ algo_input \in AlgoInputs
    /\ made = NotCalled
    /\ self = NoInstance
    /\ backend = NoBackend
    /\ locals = NoLocals
    /\ pc = "init_params"
    /\ log = <<>>

CallInitParams ==
    /\ pc = "init_params"
    /\ made' = init_params(params, algo_input)
    /\ self' = made'.instance
    /\ pc' = IF made'.outcome = "ok" THEN "run" ELSE "raised"
    /\ UNCHANGED <<params, algo_input, backend, locals, log>>

NextParams == CallInitParams

SpecParams == InitParams /\ [][NextParams]_vars

\* the call got as far as the sub-algorithm resolution (line 126 on)
HandedOn == \E k \in 1..Len(made.steps) : made.steps[k] = "read_algorithm_section"

LinearSystemInvariant(matrix, vector) ==
    /\ IsSquare(matrix)
    /\ IsPow2(Rows(matrix))
    /\ Len(vector) = Rows(matrix)

(* C2: for a square matrix A of side n and a vector b of length n,
   init_params hands on, when n is no power of two, the matrix of side
   m = 2^ceil(log2 n) that is A on its top-left block and the identity
   elsewhere, and the vector of length m that is b on its first n entries and
   1 after them; when n is a power of two it hands on A and b unchanged. *)
C2_IdentityExtension ==
    (pc # "init_params" /\ algo_input.present /\ IsSquare(algo_input.matrix)
        /\ Len(algo_input.vector) = Rows(algo_input.matrix))
    =>  LET A == algo_input.matrix
            b == algo_input.vector
            n == Rows(A)
            m == 2 ^ CeilLog2(n)
        IN  /\ HandedOn
            /\ IF IsPow2(n)
               THEN made.matrix = A /\ made.vector = b
               ELSE /\ Rows(made.matrix) = m
                    /\ \A i \in 1..m : Len(made.matrix[i]) = m
                    /\ \A i \in 1..m, j \in 1..m :
                         made.matrix[i][j] =
                            IF i <= n /\ j <= n THEN A[i][j]
                            ELSE IF i = j THEN One ELSE Zero
                    /\ Len(made.vector) = m
                    /\ \A i \in 1..m :
                         made.vector[i] = IF i <= n THEN b[i] ELSE One

(* C3: every matrix/vector pair init_params hands on to the sub-algorithm
   resolution is a LinearSystem (square matrix, side a power of two, vector as
   long as the side), and every other input ends in the dimension error (any
   ValueError of the array handling counts) with no sub-algorithm resolved. *)
C3_LinearSystemOrError ==
    (pc # "init_params" /\ algo_input.present)
    =>  IF HandedOn
        THEN LinearSystemInvariant(made.matrix, made.vector)
        ELSE /\ made.outcome \in {"ValueError: dimension", "ValueError: broadcast"}
             /\ made.resolved = <<>>

(* C5: a call of init_params without an algo_input ends in the
   missing-input error with nothing read, nothing padded, no section read, no
   sub-algorithm resolved and no instance constructed. *)
C5_MissingInputFirst ==
    (pc # "init_params" /\ ~algo_input.present)
    =>  /\ made.outcome = "AquaError"
        /\ made.steps = <<>>
        /\ made.matrix = <<>> /\ made.vector = <<>>
        /\ made.resolved = <<>>
        /\ made.instance = NoInstance

C5_Witness ==
    pc # "init_params" /\ ~algo_input.present /\ made.outcome = "AquaError"

(***************************************************************************)
(* HHL._construct_circuit                                                  *)
(***************************************************************************)
QuantumRegister(size, name) == [name |-> name, size |-> size, kind |-> "quantum"]
ClassicalRegister(size, name) == [name |-> name, size |-> size, kind |-> "classical"]

\* one composed sub-computation, or the measurement, and the register it acts on
Op(gate, on) == [gate |-> gate, on |-> on]

add_register(circuit, reg) == [circuit EXCEPT !.regs = Append(@, reg)]
append_op(circuit, op) == [circuit EXCEPT !.ops = Append(@, op)]

\* a variant that applies the reciprocal rotation before the eigenvalue
\* estimation and measures the success flag on every backend
construct_circuit_reordered(inst, is_statevector) ==
    LET q == QuantumRegister(inst.num_q, "io")
        a == QuantumRegister(inst.num_a, "eigs")
        s == QuantumRegister(1, "anc")
        c == ClassicalRegister(1, "c0")
        qc == [regs |-> <<q, a, s, c>>,
               ops |-> << Op("initial_state", "io"), Op("reciprocal", "eigs"),
                          Op("eigs", "io"), Op("eigs_inverse", "io"),
                          Op("measure", "anc") >>]
    IN  [inst EXCEPT !.io_register = q, !.eigenvalue_register = a,
                     !.ancilla_register = s, !.success_bit = c, !.circuit = qc]

\* lines 155-183
construct_circuit(inst, is_statevector) ==
    LET q == QuantumRegister(inst.num_q, "io")
        qc0 == [regs |-> <<q>>, ops |-> <<>>]
        \* InitialState
        qc1 == append_op(qc0, Op("initial_state", "io"))
        \* EigenvalueEstimation, which brings its output register
        a == QuantumRegister(inst.num_a, "eigs")
        qc2 == append_op(add_register(qc1, a), Op("eigs", "io"))
        \* Reciprocal rotation, which brings the success flag
        s == QuantumRegister(1, "anc")
        qc3 == append_op(add_register(qc2, s), Op("reciprocal", "eigs"))
        \* Inverse EigenvalueEstimation
        qc4 == append_op(qc3, Op("eigs_inverse", "io"))
        \* Measurement of the ancilla qubit
        c == ClassicalRegister(1, "c0")
        qc5 == IF ~is_statevector
               THEN append_op(add_register(qc4, c), Op("measure", "anc"))
               ELSE qc4
    IN  [inst EXCEPT
            !.success_bit = IF ~is_statevector THEN c ELSE @,
            !.io_register = q,
            !.eigenvalue_register = a,
            !.ancilla_register = s,
            !.circuit = qc5]

\* QuantumCircuit.width(): the number of qubits
width(circuit) ==
    IntSum([k \in 1..Len(circuit.regs) |->
              IF circuit.regs[k].kind = "quantum" THEN circuit.regs[k].size ELSE 0])
\* QuantumCircuit.depth(): the composed sub-computations follow one another
depth(circuit) == Len(circuit.ops)
\* QuantumCircuit.number_atomic_gates()
number_atomic_gates(circuit) == Len(circuit.ops)

(***************************************************************************)
(* The result dictionary self._ret                                         *)
(***************************************************************************)
Put(dict, key, value) ==
    [k \in (DOMAIN dict) \cup {key} |-> IF k = key THEN value ELSE dict[k]]

Has(dict, key) == key \in DOMAIN dict

(***************************************************************************)
(* Classical linear algebra (numpy.linalg), exact on Gaussian integers.    *)
(***************************************************************************)
\* the determinant by expansion along the rows: DetRec is the determinant of
\* the rows r.. restricted to the columns cols, DetTerms the sum of its first p
\* cofactor terms
RECURSIVE DetRec(_, _, _)
RECURSIVE DetTerms(_, _, _, _)
DetTerms(M, r, cols, p) ==
    IF p = 0 THEN Zero
    ELSE LET rest == SubSeq(cols, 1, p - 1) \o SubSeq(cols, p + 1, Len(cols))
             term == CMul(M[r][cols[p]], DetRec(M, r + 1, rest))
         IN  CAdd(DetTerms(M, r, cols, p - 1),
                  IF p % 2 = 1 THEN term ELSE CNeg(term))
DetRec(M, r, cols) ==
    IF cols = <<>> THEN One ELSE DetTerms(M, r, cols, Len(cols))

Det(M) == DetRec(M, 1, [j \in 1..Len(M) |-> j])

\* numpy.linalg.solve raises LinAlgError on a singular matrix
Singular(M) == Det(M) = Zero

\* Cramer's rule: the solution is num / den
solve(M, b) ==
    [num |-> [k \in 1..Len(M) |->
                Det([i \in 1..Len(M) |-> [j \in 1..Len(M) |->
                       IF j = k THEN b[i] ELSE M[i][j]]])],
     den |-> Det(M)]

\* matrix.dot(v)
Dot(M, v) == [i \in 1..Len(M) |-> CSum([j \in 1..Len(v) |-> CMul(M[i][j], v[j])])]

\* v.dot(w.conj())
Inner(v, w) == CSum([i \in 1..Len(v) |-> CMul(v[i], CConj(w[i]))])

NormSq(v) == IntSum([i \in 1..Len(v) |-> CAbs2(v[i])])

(***************************************************************************)
(* HHL._statevector_simulation: the two extractions                        *)
(***************************************************************************)
\* Python's seq[start:stop], 0-based, stop cut to the length
Slice(seq, start, stop) ==
    LET hi == IF stop < Len(seq) THEN stop ELSE Len(seq)
    IN  [i \in 1..(IF hi > start THEN hi - start ELSE 0) |-> seq[start + i]]

\* Python's seq[start::step], 0-based
RECURSIVE Strided(_, _, _)
Strided(seq, start, step) ==
    IF start >= Len(seq) THEN <<>>
    ELSE <<seq[start + 1]>> \o Strided(seq, start + step, step)

\* a fold that starts one place late
LongDivisionExtract_shifted(sv, num_q) ==
    LET half == Len(sv) \div 2
        sv_good == Slice(sv, half, Len(sv))
    IN  [i \in 1..(2 ^ num_q) |-> CSum(Strided(sv_good, i, 2 ^ num_q))]

\* line 195: sv[half:half + 2 ** num_q]
LookupExtract(sv, num_q) ==
    LET half == Len(sv) \div 2
    IN  Slice(sv, half, half + 2 ^ num_q)

\* lines 197-200: for i in range(2 ** num_q): sum(sv_good[i::2 ** num_q])
LongDivisionExtract(sv, num_q) ==
    LET half == Len(sv) \div 2
        sv_good == Slice(sv, half, Len(sv))
    IN  [i \in 1..(2 ^ num_q) |-> CSum(Strided(sv_good, i - 1, 2 ^ num_q))]

\* lines 194-196: the branch on the reciprocal's name
Extract(reciprocal, sv, num_q) ==
    CASE reciprocal = "Lookup" -> LookupExtract(sv, num_q)
      [] reciprocal = "LongDivision" -> LongDivisionExtract(sv, num_q)

\* vec / np.linalg.norm(vec): the vector num / sqrt(den2); nan when den2 = 0
Normalized(vec) == [num |-> vec, den2 |-> NormSq(vec)]

(***************************************************************************)
(* HHL._hhl_results                                                        *)
(***************************************************************************)
\* np.angle(z - 1 + 1) in units of pi/4, for z on an axis or a diagonal; the
\* "- 1 + 1" turns a negative zero into a positive one, so the negative real
\* axis has angle +pi and zero has angle 0
Angle8(z) ==
    CASE z[1] = 0 /\ z[2] = 0 -> 0
      [] z[1] > 0 /\ z[2] = 0 -> 0
      [] z[1] > 0 /\ z[2] = z[1] -> 1
      [] z[1] = 0 /\ z[2] > 0 -> 2
      [] z[1] < 0 /\ z[2] = -z[1] -> 3
      [] z[1] < 0 /\ z[2] = 0 -> 4
      [] z[1] < 0 /\ z[2] = z[1] -> -3
      [] z[1] = 0 /\ z[2] < 0 -> -2
      [] z[1] > 0 /\ z[2] = -z[1] -> -1

\* np.angle(self._vector * tmp_vec.conj() - 1 + 1), component by component
Angles(vector, tmp_vec) ==
    [i \in 1..Len(vector) |-> Angle8(CMul(vector[i], CConj(tmp_vec[i])))]

\* lines 237-247.  raised: np.linalg.solve found the matrix singular, after
\* output_hhl was stored
hhl_results(inst, vec) ==
    LET ret1 == Put(inst.ret, "output_hhl", vec)
        theo == solve(inst.matrix, inst.vector)
        \* abs(theo.dot(vec.conj())) ** 2 with theo and vec of unit length
        fidelity == [nan |-> vec.den2 = 0 \/ NormSq(theo.num) = 0,
                     num |-> CAbs2(Inner(theo.num, vec.num)),
                     den |-> NormSq(theo.num) * NormSq(vec.num)]
        tmp_vec == Dot(inst.matrix, vec.num)
        \* f1 squared
        f1 == [nan |-> vec.den2 = 0,
               num |-> NormSq(inst.vector) * vec.den2,
               den |-> NormSq(tmp_vec)]
        \* f2 = num / den, in units of pi/4
        f2 == [nan |-> vec.den2 = 0,
               num |-> IF vec.den2 = 0 THEN 0
                       ELSE IntSum(Angles(inst.vector, tmp_vec)),
               den |-> inst.num_q]
        ret2 == Put(ret1, "fidelity_hhl_to_classical", fidelity)
        \* f1 * vec * exp(-1j * f2), a new array
        ret3 == Put(ret2, "solution_hhl", [scale2 |-> f1, phase |-> f2, vec |-> vec])
    IN  IF Singular(inst.matrix)
        THEN [raised |-> TRUE, inst |-> [inst EXCEPT !.ret = ret1]]
        ELSE [raised |-> FALSE, inst |-> [inst EXCEPT !.ret = ret3]]

(***************************************************************************)
(* HHL._run, lines 267-275: the general result information                 *)
(***************************************************************************)
general_info(inst) ==
    LET ret1 == Put(inst.ret, "input_matrix", inst.matrix)
        ret2 == Put(ret1, "input_vector", inst.vector)
        ret3 == Put(ret2, "eigenvalues_classical", "eig(input_matrix)")
        ret4 == Put(ret3, "solution_classical", solve(inst.matrix, inst.vector))
        ret5 == Put(ret4, "circuit_width", width(inst.circuit))
        ret6 == Put(ret5, "circuit_depth", depth(inst.circuit))
        ret7 == Put(ret6, "gate_count_total", number_atomic_gates(inst.circuit))
    IN  IF Singular(inst.matrix)
        THEN [raised |-> TRUE, inst |-> [inst EXCEPT !.ret = ret3]]
        ELSE [raised |-> FALSE, inst |-> [inst EXCEPT !.ret = ret7]]

\* lines 252-260: circuit mode stores the circuit's name and the registers
circuit_mode(inst) ==
    LET regs == [io_register |-> inst.io_register,
                 eigenvalue_register |-> inst.eigenvalue_register,
                 ancilla_register |-> inst.ancilla_register,
                 success_bit |-> inst.success_bit]
    IN  [inst EXCEPT !.ret = Put(Put(@, "circuit", "circuit0"), "regs", regs)]

\* a variant that sends every mode to the exact-amplitude evaluation
mode_branch_always_evaluates(mode, is_statevector) ==
    IF is_statevector THEN "statevector_simulation" ELSE "state_tomography"

\* lines 252-266: where _run goes after the assembly
mode_branch(mode, is_statevector) ==
    IF mode = "circuit" THEN "circuit_mode"
    ELSE IF mode = "evaluate"
         THEN IF is_statevector THEN "statevector_simulation" ELSE "state_tomography"
         ELSE "general_info"

(***************************************************************************)
(* HHL._state_tomography                                                   *)
(***************************************************************************)
\* number of outcomes each tomography circuit is sampled for
Shots == 2

\* tomo.state_tomography_set: three measurement bases for each qubit
NumTomographyCircuits(num_q) == 3 ^ num_q

\* a variant that also measures the io register in the solve's own circuit
tomography_register_measuring(inst) ==
    [inst EXCEPT !.circuit =
        append_op(add_register(@, ClassicalRegister(inst.num_q, "c1")),
                  Op("measure", "io"))]

\* lines 212-213: the classical register for the io measurements joins
\* self._circuit
tomography_register(inst) ==
    [inst EXCEPT !.circuit = add_register(@, ClassicalRegister(inst.num_q, "c1"))]

\* lines 223-229: s counts the outcomes whose last character is "1"
SuccessCount(counts) ==
    IntSum([k \in 1..Len(counts) |->
              IF counts[k].key[Len(counts[k].key)] = "1" THEN counts[k].n ELSE 0])
TotalCount(counts) == IntSum([k \in 1..Len(counts) |-> counts[k].n])

\* probs: s / (f + s) for each circuit, as the pair <<s, f + s>>
Probabilities(all_counts) ==
    [c \in 1..Len(all_counts) |->
        <<SuccessCount(all_counts[c]), TotalCount(all_counts[c])>>]

(***************************************************************************)
(* What the backend may hand back.                                         *)
(***************************************************************************)
Units == {One, ImagUnit, CNeg(One), CNeg(ImagUnit)}

\* a final state of num_q + num_a + 1 qubits: amplitude 1 on the all-zero
\* index (success flag 0), u at offset k of the success half, and t at offset
\* tk of the second block of the success half
StateVector(num_q, num_a, k, u, t, tk) ==
    LET half == 2 ^ (num_q + num_a)
    IN  [j \in 1..(2 * half) |->
            IF j - 1 = 0 THEN One
            ELSE IF j - 1 = half + k THEN u
            ELSE IF j - 1 = half + 2 ^ num_q + tk THEN t
            ELSE Zero]

StateVectors(num_q, num_a) ==
    { StateVector(num_q, num_a, k, u, t, (k + d) % (2 ^ num_q)) :
        k \in 0..(2 ^ num_q - 1), u \in Units,
        t \in {Zero, One, ImagUnit}, d \in 0..1 }

\* the outcome strings read "<io bits> <success bit>": the register added last
\* is printed first
OutcomeKey(num_q, io_bit, success_bit) ==
    [i \in 1..(num_q + 2) |->
        IF i <= num_q THEN io_bit ELSE IF i = num_q + 1 THEN " " ELSE success_bit]

\* the counts of one run of every tomography circuit
CountsOf(num_q, p) ==
    [c \in 1..NumTomographyCircuits(num_q) |->
        LET s == (c + p) % (Shots + 1)
        IN  << [key |-> OutcomeKey(num_q, "0", "1"), n |-> s],
               [key |-> OutcomeKey(num_q, "1", "0"), n |-> Shots - s] >>]

\* rho_fit[:, 0] / sqrt(rho_fit[0, 0]) for the density matrix fitted: column 0
\* of |psi><psi| is psi * conj(psi[0]), and rho_fit[0, 0] = |psi[0]|^2
FitOf(psi) ==
    [num |-> [i \in 1..Len(psi) |-> CMul(psi[i], CConj(psi[1]))],
     den2 |-> CAbs2(psi[1])]

TomographyFits(num_q) ==
    { FitOf([i \in 1..(2 ^ num_q) |->
               IF i = 1 THEN h ELSE IF i = 2 THEN u ELSE Zero]) :
        h \in {One, Zero}, u \in {One, ImagUnit, CNeg(One)} }

(***************************************************************************)
(* Spec: init_params on a linear system, then one _run of the instance.    *)
(* The systems have unit entries and one entry in each row, so that every  *)
(* angle _hhl_results takes is a multiple of pi/4.                         *)
(***************************************************************************)
MinusOne == CNeg(One)

RunMatrices ==
    { << <<One, Zero>>, <<Zero, One>> >>,
      << <<Zero, One>>, <<One, Zero>> >>,
      << <<ImagUnit, Zero>>, <<Zero, MinusOne>> >>,
      << <<One, Zero>>, <<One, Zero>> >>,
      << <<Zero, One, Zero>>, <<One, Zero, Zero>>, <<Zero, Zero, MinusOne>> >> }

RunVectors ==
    { <<One, Zero>>, <<ImagUnit, MinusOne>>,
      <<One, Zero, MinusOne>>, <<MinusOne, One, One>> }

RunInputs ==
    { input \in { [present |-> TRUE, matrix |-> M, vector |-> b] :
                    M \in RunMatrices, b \in RunVectors } :
        Len(input.vector) = Len(input.matrix) }

RunParams ==
    [mode : ModeValues,
     eigs : {e \in EigsSections : e.name = "QPE"},
     reciprocal : {"Lookup", "LongDivision"}]

Init ==
    /\ params \in RunParams
    /\ algo_input \in RunInputs
    /\ made = NotCalled
    /\ self = NoInstance
    /\ backend \in [statevector : BOOLEAN, executions : {0}]
    /\ locals = NoLocals
    /\ pc = "init_params"
    /\ log = <<>>

\* line 250
ConstructCircuit ==
    /\ pc = "run"
    /\ self' = construct_circuit(self, backend.statevector)
    /\ pc' = mode_branch(self.mode, backend.statevector)
    /\ log' = Append(log, "construct_circuit")
    /\ UNCHANGED <<params, algo_input, made, backend, locals>>

\* lines 252-260
CircuitMode ==
    /\ pc = "circuit_mode"
    /\ self' = circuit_mode(self)
    /\ pc' = "general_info"
    /\ log' = Append(log, "circuit_mode")
    /\ UNCHANGED <<params, algo_input, made, backend, locals>>

\* lines 190-191: one execution, which hands back the final amplitudes
StatevectorExecute ==
    /\ pc = "statevector_simulation"
    /\ backend' = [backend EXCEPT !.executions = @ + 1]
    /\ \E sv \in StateVectors(self.num_q, self.num_a) :
          locals' = [locals EXCEPT !.sv = sv]
    /\ pc' = "extract"
    /\ log' = Append(log, "execute")
    /\ UNCHANGED <<params, algo_input, made, self>>

\* lines 193-202
StatevectorExtract ==
    /\ pc = "extract"
    /\ LET vec == Extract(self.reciprocal, locals.sv, self.num_q)
       IN  /\ self' = [self EXCEPT !.ret = Put(@, "probability_result", Inner(vec, vec))]
           /\ locals' = [locals EXCEPT !.vec = Normalized(vec)]
    /\ pc' = "hhl_results"
    /\ log' = Append(log, "decode")
    /\ UNCHANGED <<params, algo_input, made, backend>>

\* lines 212-217
TomographyPrepare ==
    /\ pc = "state_tomography"
    /\ self' = tomography_register(self)
    /\ pc' = "tomography_execute"
    /\ log' = Append(log, "tomography_circuits")
    /\ UNCHANGED <<params, algo_input, made, backend, locals>>

\* line 219: one execution of the list of tomography circuits
TomographyExecute ==
    /\ pc = "tomography_execute"
    /\ backend' = [backend EXCEPT !.executions = @ + 1]
    /\ \E p \in 0..Shots, fit \in TomographyFits(self.num_q) :
          locals' = [locals EXCEPT !.counts = CountsOf(self.num_q, p), !.fit = fit]
    /\ pc' = "tomography_fit"
    /\ log' = Append(log, "execute")
    /\ UNCHANGED <<params, algo_input, made, self>>

\* lines 220-234
TomographyFit ==
    /\ pc = "tomography_fit"
    /\ self' = [self EXCEPT
                  !.ret = Put(@, "probability_result", Probabilities(locals.counts))]
    /\ locals' = [locals EXCEPT !.vec = locals.fit]
    /\ pc' = "hhl_results"
    /\ log' = Append(log, "decode")
    /\ UNCHANGED <<params, algo_input, made, backend>>

\* lines 203 and 235: self._hhl_results(vec)
HhlResults ==
    /\ pc = "hhl_results"
    /\ LET r == hhl_results(self, locals.vec)
       IN  /\ self' = r.inst
           /\ pc' = IF r.raised THEN "LinAlgError" ELSE "general_info"
           /\ log' = IF r.raised THEN log ELSE Append(log, "hhl_results")
    /\ UNCHANGED <<params, algo_input, made, backend, locals>>

\* lines 267-275
GeneralInfo ==
    /\ pc = "general_info"
    /\ LET r == general_info(self)
       IN  /\ self' = r.inst
           /\ pc' = IF r.raised THEN "LinAlgError" ELSE "returned"
    /\ log' = Append(log, "general_info")
    /\ UNCHANGED <<params, algo_input, made, backend, locals>>

Next ==
    \/ CallInitParams
    \/ ConstructCircuit
    \/ CircuitMode
    \/ StatevectorExecute
    \/ StatevectorExtract
    \/ TomographyPrepare
    \/ TomographyExecute
    \/ TomographyFit
    \/ HhlResults
    \/ GeneralInfo

Spec == Init /\ [][Next]_vars

(***************************************************************************)
(* Properties of a solve.                                                  *)
(***************************************************************************)
\* the solve is over: _run returned, or the classical solve raised
SolveOver == pc \in {"returned", "LinAlgError"}

StructuralFields ==
    {"circuit", "regs", "circuit_width", "circuit_depth", "gate_count_total"}
ClassicalFields ==
    {"input_matrix", "input_vector", "eigenvalues_classical", "solution_classical"}
DecodedFields ==
    {"probability_result", "output_hhl", "fidelity_hhl_to_classical", "solution_hhl"}

(* C1, as claimed: a circuit-mode solve returns a bundle that holds only
   structural fields, and executes nothing on the backend. *)
C1_OnlyStructuralFields ==
    (self.mode = "circuit" /\ SolveOver)
    =>  /\ pc = "returned"
        /\ DOMAIN self.ret \subseteq StructuralFields
        /\ backend.executions = 0

(* C1, amended: a circuit-mode solve never executes anything on the backend
   and never stores a decoded field; on a non-singular matrix it returns a
   bundle with exactly the structural fields and the classical reference
   fields (input_matrix, input_vector, eigenvalues_classical,
   solution_classical); on a singular matrix the classical solve raises. *)
C1_NoExecutionNoDecodedFields ==
    (self.mode = "circuit")
    =>  /\ backend.executions = 0
        /\ DOMAIN self.ret \cap DecodedFields = {}
        /\ SolveOver =>
             IF Singular(self.matrix)
             THEN pc = "LinAlgError"
             ELSE /\ pc = "returned"
                  /\ DOMAIN self.ret = StructuralFields \cup ClassicalFields

C1_Witness ==
    /\ self.mode = "circuit"
    /\ pc = "returned"
    /\ Has(self.ret, "regs") /\ Has(self.ret, "solution_classical")
    /\ backend.executions = 0

(* C4: a mode other than "circuit" and "evaluate", an absent one included,
   ends init_params in the configuration error of the constructor: no
   instance, no circuit, no execution, no result bundle, and _run never
   starts. *)
C4_InvalidModeRejected ==
    (pc # "init_params" /\ params.mode \notin {"circuit", "evaluate"})
    =>  /\ pc = "raised"
        /\ made.outcome = "AquaError"
        /\ self.error = "AquaError"
        /\ self.circuit = NoCircuit
        /\ self.ret = EmptyDict
        /\ backend.executions = 0
        /\ log = <<>>

C4_Witness ==
    /\ params.mode = NoneValue
    /\ pc = "raised"
    /\ made.outcome = "AquaError"
    /\ made.resolved = <<"eigs", "initial_state", "reciprocal">>

(* C6: once _construct_circuit has run, the circuit's operations are, in this
   order, the initial state on the io register, the eigenvalue estimation, the
   reciprocal rotation on the eigenvalue register and the inverse eigenvalue
   estimation; a measurement of the success flag into a one-bit classical
   register follows, and that register is _success_bit, exactly when the
   backend is no statevector backend; the three register handles are set. *)
C6_AssemblyOrder ==
    (log # <<>>)
    =>  LET ops == self.circuit.ops
        IN  /\ Len(ops) >= 4
            /\ ops[1] = Op("initial_state", self.io_register.name)
            /\ ops[2] = Op("eigs", self.io_register.name)
            /\ ops[3] = Op("reciprocal", self.eigenvalue_register.name)
            /\ ops[4] = Op("eigs_inverse", self.io_register.name)
            /\ IF backend.statevector
               THEN Len(ops) = 4 /\ self.success_bit = NoRegister
               ELSE /\ Len(ops) = 5
                    /\ ops[5] = Op("measure", self.ancilla_register.name)
                    /\ self.success_bit = ClassicalRegister(1, "c0")
                    /\ \E k \in 1..Len(self.circuit.regs) :
                          self.circuit.regs[k] = self.success_bit
            /\ self.io_register = QuantumRegister(self.num_q, "io")
            /\ self.eigenvalue_register = QuantumRegister(self.num_a, "eigs")
            /\ self.ancilla_register = QuantumRegister(1, "anc")

C6_Witness ==
    /\ log = <<"construct_circuit">>
    /\ ~backend.statevector
    /\ self.success_bit = ClassicalRegister(1, "c0")
    /\ Len(self.circuit.ops) = 5

\* the state of the solve each step of _run enters
PhaseOf(step) ==
    CASE step = "construct_circuit" -> <<"Assembled">>
      [] step = "circuit_mode" -> <<"Inspected">>
      [] step = "execute" -> <<"Executed">>
      [] step = "decode" -> <<"Decoded">>
      [] step = "hhl_results" -> <<"PostProcessed">>
      [] OTHER -> <<>>

RECURSIVE PhasesTo(_, _)
PhasesTo(steps, n) ==
    IF n = 0 THEN <<"Unassembled">> ELSE PhasesTo(steps, n - 1) \o PhaseOf(steps[n])

\* the states the solve has been in, in order
Visited == PhasesTo(log, Len(log))

IsPrefix(s, t) == Len(s) <= Len(t) /\ SubSeq(t, 1, Len(s)) = s

InspectPath == <<"Unassembled", "Assembled", "Inspected">>
EvaluatePath ==
    <<"Unassembled", "Assembled", "Executed", "Decoded", "PostProcessed">>

(* C7, as claimed: the states a solve has been in are a prefix of
   Unassembled, Assembled, Inspected or of Unassembled, Assembled, Executed,
   Decoded, PostProcessed; a circuit-mode solve ends having been through the
   first and an evaluate-mode solve through the second. *)
C7_EverySolveEndsInTerminalState ==
    /\ IsPrefix(Visited, InspectPath) \/ IsPrefix(Visited, EvaluatePath)
    /\ (SolveOver /\ self.mode = "circuit") => Visited = InspectPath
    /\ (SolveOver /\ self.mode = "evaluate") => Visited = EvaluatePath

(* C7, amended: the same, for the solves that return; a solve on a singular
   matrix ends when the classical solve raises, in Inspected (circuit mode) or
   in Decoded (evaluate mode), and never reaches PostProcessed. *)
C7_StateMachine ==
    /\ IsPrefix(Visited, InspectPath) \/ IsPrefix(Visited, EvaluatePath)
    /\ (pc = "returned" /\ self.mode = "circuit") => Visited = InspectPath
    /\ (pc = "returned" /\ self.mode = "evaluate") => Visited = EvaluatePath
    /\ SolveOver => (pc = "LinAlgError" <=> Singular(self.matrix))
    /\ (pc = "LinAlgError" /\ self.mode = "circuit") => Visited = InspectPath
    /\ (pc = "LinAlgError" /\ self.mode = "evaluate") =>
          Visited = SubSeq(EvaluatePath, 1, 4)

C7_Witness ==
    /\ pc = "returned"
    /\ self.mode = "evaluate"
    /\ ~backend.statevector
    /\ Visited = EvaluatePath

\* the circuit as _construct_circuit leaves it
Assembled == construct_circuit(made.instance, backend.statevector).circuit

(* C8, as claimed: once assembled, the circuit of the solve stays as
   _construct_circuit left it. *)
C8_ReadOnlyAfterAssembly ==
    (log # <<>>) => self.circuit = Assembled

(* C8, amended: after the assembly no step adds an operation, and the only
   register added is the classical register of num_q bits that
   _state_tomography adds before it executes (evaluate mode on a sampling
   backend); the width (the number of qubits), the depth and the gate count
   reported are those of the circuit as assembled. *)
C8_OnlyTomographyAddsRegister ==
    (log # <<>>)
    =>  /\ self.circuit.ops = Assembled.ops
        /\ IF self.mode = "evaluate" /\ ~backend.statevector /\ Len(log) >= 2
           THEN self.circuit.regs =
                   Append(Assembled.regs, ClassicalRegister(self.num_q, "c1"))
           ELSE self.circuit.regs = Assembled.regs
        /\ pc = "returned" =>
              /\ self.ret["circuit_width"] = width(Assembled)
              /\ self.ret["circuit_depth"] = depth(Assembled)
              /\ self.ret["gate_count_total"] = number_atomic_gates(Assembled)

C8_Witness ==
    /\ pc = "returned"
    /\ self.mode = "evaluate"
    /\ ~backend.statevector
    /\ Len(self.circuit.regs) = Len(Assembled.regs) + 1
    /\ self.ret["circuit_depth"] = 5

\* the amplitudes of the success half outside its first block of 2^num_q
TailIsZero(sv, num_q) ==
    \A j \in (Len(sv) \div 2 + 2 ^ num_q + 1)..Len(sv) : sv[j] = Zero

(* C9: on the exact-amplitude path the vector extracted has 2^q entries; with
   the Lookup rotator entry i is the amplitude at place i of the success half;
   with the LongDivision rotator entry i is the sum of the amplitudes at the
   places i, i + 2^q, i + 2 * 2^q, ... of the success half; the probability
   recorded is the squared norm of the vector extracted; and on every
   amplitude vector whose success half is zero outside its first block of 2^q
   the two extractions agree. *)
C9_StridedFoldEquivalence ==
    (backend.statevector /\ Has(self.ret, "probability_result"))
    =>  LET sv == locals.sv
            n == 2 ^ self.num_q
            half == Len(sv) \div 2
            vec == locals.vec.num
        IN  /\ Len(vec) = n
            /\ self.reciprocal = "Lookup" =>
                  \A i \in 0..(n - 1) : vec[i + 1] = sv[half + i + 1]
            /\ self.reciprocal = "LongDivision" =>
                  \A i \in 0..(n - 1) :
                     vec[i + 1] =
                        CSum([k \in 1..(half \div n) |-> sv[half + i + (k - 1) * n + 1]])
            /\ self.ret["probability_result"] = <<NormSq(vec), 0>>
            /\ TailIsZero(sv, self.num_q) =>
                  /\ LookupExtract(sv, self.num_q) = LongDivisionExtract(sv, self.num_q)
                  /\ vec = [i \in 1..n |-> sv[half + i]]

C9_Witness ==
    /\ backend.statevector
    /\ Has(self.ret, "probability_result")
    /\ self.reciprocal = "LongDivision"
    /\ TailIsZero(locals.sv, self.num_q)
    /\ locals.vec.num = LookupExtract(locals.sv, self.num_q)
    /\ locals.vec.den2 = 1

(* C10: the phase correction of _hhl_results is the mean of the angles
   between the components of the vector and of the matrix applied to the
   extracted vector, their sum divided by the number of components 2^q; the
   vector stored as output_hhl is the extracted one, unchanged. *)
C10_MeanAngle ==
    Has(self.ret, "solution_hhl")
    =>  LET f2 == self.ret["solution_hhl"].phase
            vec == locals.vec
            sum == IntSum(Angles(self.vector, Dot(self.matrix, vec.num)))
        IN  /\ self.ret["output_hhl"] = vec
            /\ self.ret["solution_hhl"].vec = vec
            /\ (self.num_q >= 1 /\ ~f2.nan) =>
                  f2.num * (2 ^ self.num_q) = sum * f2.den

====
